---- MODULE Spec2Model ----
(***************************************************************************)
(* Model of shell_integration/linux/nemo/aerocloud_nemo.py:                *)
(*   AeroCloudStatusCache   - TTL cache guarded by a lock                  *)
(*   AeroCloudDaemonClient  - one shared Unix-socket connection, guarded   *)
(*                            by a lock, with reconnect suppression        *)
(*   AeroCloudExtension.update_file_info - cache first, then the daemon    *)
(*                                                                         *)
(* Text is modelled as a sequence of tokens.  Each token is a fixed piece  *)
(* of text ("STATUS", ":", "OK", ...); the text a sequence stands for is   *)
(* the concatenation of its tokens.  ":" and "\n" are the only tokens that *)
(* contain a colon or a line break, and no concatenation of other tokens   *)
(* spells "STATUS", so startswith / split / splitlines on the text are     *)
(* exactly the token-level operators below.                                *)
(* An Optional[str] is a sequence of length 0 (None) or 1 (<<s>>).         *)
(***************************************************************************)
EXTENDS Naturals, Integers, Sequences, FiniteSets, TLC

\* ---------------------------------------------------------------- bounds
NumThreads == 2
StartTime == 100
CacheHorizon == 5
ClientHorizon == 30
FullHorizon == 5
MaxRespLen == 8

\* ------------------------------------------------------ program constants
TTL == 5
RECONNECT_INTERVAL == 30

None == <<>>
Some(x) == <<x>>

Threads == 1..NumThreads
NoThread == 0

\* file paths handed to the extension; "/\udcff" stands for a file name that
\* is not valid UTF-8, which reaches Python as a str with a lone surrogate
Paths == {"/a", "/b", "/\\udcff"}
EncodablePaths == {"/a", "/b"}

\* ------------------------------------------------------------------ text
NL == "\n"
COLON == ":"
BadByte == "\\xff"
STATUS_MARKER == <<"STATUS", COLON>>

\* bytes.decode('utf-8', errors='ignore'): undecodable bytes are dropped
KeepByte(b) == b # BadByte
Decode(bytes) == SelectSeq(bytes, KeepByte)

\* index of the first occurrence of tok in s, 0 when there is none
IndexOf(s, tok) ==
    IF \E i \in 1..Len(s) : s[i] = tok
    THEN CHOOSE i \in 1..Len(s) : s[i] = tok /\ \A j \in 1..(i-1) : s[j] # tok
    ELSE 0

\* str.splitlines(): break at every line break, no empty last line
RECURSIVE SplitLines(_)
SplitLines(s) ==
    IF s = <<>> THEN <<>>
    ELSE LET i == IndexOf(s, NL) IN
         IF i = 0 THEN <<s>>
         ELSE <<SubSeq(s, 1, i-1)>> \o SplitLines(SubSeq(s, i+1, Len(s)))

\* str.startswith(prefix)
StartsWith(s, prefix) ==
    /\ Len(s) >= Len(prefix)
    /\ SubSeq(s, 1, Len(prefix)) = prefix

\* str.split(sep, maxsplit)
RECURSIVE Split(_, _, _)
Split(s, sep, maxsplit) ==
    LET i == IndexOf(s, sep) IN
    IF maxsplit = 0 \/ i = 0 THEN <<s>>
    ELSE <<SubSeq(s, 1, i-1)>> \o Split(SubSeq(s, i+1, Len(s)), sep, maxsplit - 1)

\* one line of the loop: `if line.startswith('STATUS:')`, split(':', 2),
\* `if len(parts) >= 3: return parts[1]`; None when the line is passed over
LineStatusTwoParts(line) ==
    LET parts == Split(line, COLON, 2)
    IN IF StartsWith(line, STATUS_MARKER) /\ Len(parts) >= 2
       THEN Some(parts[2])
       ELSE None
LineStatus(line) ==
    LET parts == Split(line, COLON, 2)
    IN IF StartsWith(line, STATUS_MARKER) /\ Len(parts) >= 3
       THEN Some(parts[2])
       ELSE None

\* the for loop of query_status over response.splitlines(), and the
\* `return None` after it
RECURSIVE ScanLines(_)
ScanLines(lines) ==
    IF lines = <<>> THEN None
    ELSE IF LineStatus(Head(lines)) # None
         THEN LineStatus(Head(lines))
         ELSE ScanLines(Tail(lines))

\* recv(1024).decode(...) followed by the scan
ParseResponse(bytes) == ScanLines(SplitLines(Decode(bytes)))


\* ----------------------------------------------------------------- state
VARIABLES
    now,                  \* the value time.time() returns
    cache,                \* AeroCloudStatusCache._cache: path -> [status, timestamp]
    cache_lock,           \* AeroCloudStatusCache._lock: the holder, or NoThread
    sock,                 \* AeroCloudDaemonClient._socket: a socket id, or NoSock
    last_connect_attempt, \* AeroCloudDaemonClient._last_connect_attempt
    client_lock,          \* AeroCloudDaemonClient._lock: the holder, or NoThread
    peer_closed,          \* the daemon has closed its end of the connection
    unread,               \* bytes the daemon has sent that no recv has returned yet
    unread_for,           \* history: the path of the request the unread bytes answer
    pc,                   \* per thread: where it is in its call
    mode,                 \* per thread: the method the host called
    path,                 \* per thread: the file_path / path argument
    arg,                  \* per thread: the status argument of a direct set call
    ret,                  \* per thread: what the last get / query_status returned
    exc,                  \* per thread: the exception that left the call, or NoExc
    raised,               \* per thread: the exception raised inside the call, or NoExc
    tstamp,               \* per thread: the time.time() value read inside set
    max_set_ts,           \* history: per path, the latest timestamp any set stored
    last_set,             \* history: per path, what the set that completed last stored
    socks_created,        \* history: socket objects created so far (ids 1..n)
    closed_socks,         \* history: the socket ids close() was called on
    exists_checks,        \* history: calls of os.path.exists
    connect_calls,        \* history: calls of sock.connect
    attempt_result,       \* history: how the latest connection attempt ended
    last_failure,         \* history: time of the latest failed send / recv, 0 if none
    eof_seen,             \* history: a recv on the current handle has returned b''
    p_in,                 \* response bytes given to the parser (parser runs only)
    p_out                 \* what the parser returned for p_in, once applied

cacheVars == <<cache, cache_lock, max_set_ts, last_set>>
clientVars == <<sock, last_connect_attempt, client_lock>>
envVars == <<peer_closed, unread, unread_for>>
histVars == <<socks_created, closed_socks, exists_checks, connect_calls,
              attempt_result, last_failure, eof_seen>>
threadVars == <<pc, mode, path, arg, ret, exc, raised, tstamp>>
parseVars == <<p_in, p_out>>
vars == <<now, cacheVars, clientVars, envVars, histVars, threadVars, parseVars>>

NoSock == 0
NoExc == "none"
NotApplied == <<"not applied">>

\* status codes the daemon is asked to store directly in the cache runs
Statuses == {<<"OK">>, <<"SYNC">>}

\* `if status:` - None and the empty string are both false
TruthyNotNone(r) == r # None
Truthy(r) == r # None /\ r[1] # <<>>

\* threading.Lock: acquire succeeds only while nobody holds it
CanAcquireAlways(lock) == TRUE
CanAcquire(lock) == lock = NoThread

\* time.time() - timestamp < self._ttl
IsFreshInclusive(t, timestamp) == t - timestamp <= TTL
IsFreshShort(t, timestamp) == t - timestamp < TTL - 1
IsFresh(t, timestamp) == t - timestamp < TTL

\* now - self._last_connect_attempt < self.RECONNECT_INTERVAL
SuppressedNever(t, last) == FALSE
SuppressedAlways(t, last) == TRUE
SuppressedOffByOne(t, last) == t - last < RECONNECT_INTERVAL - 1
Suppressed(t, last) == t - last < RECONNECT_INTERVAL

\* except (socket.timeout, socket.error, OSError, BrokenPipeError)
Caught(e) == e \in {"timeout", "OSError", "BrokenPipeError"}

\* `not self._socket_path or not os.path.exists(self._socket_path)`: the
\* path itself is always set by _find_socket_path
PathMissingIgnored(exists) == FALSE
PathMissing(exists) == ~exists

InitRest ==
    /\ now = StartTime
    /\ cache = <<>>
    /\ cache_lock = NoThread
    /\ sock = NoSock
    /\ last_connect_attempt = 0
    /\ client_lock = NoThread
    /\ peer_closed = FALSE
    /\ unread = <<>>
    /\ unread_for = "none"
    /\ eof_seen = FALSE
    /\ pc = [t \in Threads |-> "idle"]
    /\ mode = [t \in Threads |-> "none"]
    /\ path = [t \in Threads |-> "none"]
    /\ arg = [t \in Threads |-> None]
    /\ ret = [t \in Threads |-> None]
    /\ exc = [t \in Threads |-> NoExc]
    /\ raised = [t \in Threads |-> NoExc]
    /\ tstamp = [t \in Threads |-> 0]
    /\ max_set_ts = [p \in Paths |-> 0]
    /\ last_set = [p \in Paths |-> None]
    /\ socks_created = 0
    /\ closed_socks = {}
    /\ exists_checks = 0
    /\ connect_calls = 0
    /\ attempt_result = "none"
    /\ last_failure = 0

Init ==
    /\ InitRest
    /\ p_in = <<>>
    /\ p_out = NotApplied

\* time passes
Tick(steps, horizon) ==
    /\ \E d \in steps :
          /\ now + d <= StartTime + horizon
          /\ now' = now + d
    /\ UNCHANGED <<cacheVars, clientVars, envVars, histVars, threadVars, parseVars>>

\* the call returns to the host
Return(t) ==
    /\ pc[t] = "done"
    /\ pc' = [pc EXCEPT ![t] = "idle"]
    /\ mode' = [mode EXCEPT ![t] = "none"]
    /\ ret' = [ret EXCEPT ![t] = None]
    /\ exc' = [exc EXCEPT ![t] = NoExc]
    /\ raised' = [raised EXCEPT ![t] = NoExc]
    /\ UNCHANGED <<path, arg, tstamp>>
    /\ UNCHANGED <<now, cacheVars, clientVars, envVars, histVars, parseVars>>

\* thread t moves on to `next`; when that is the end of the call, its
\* arguments and locals are gone
Step(t, next) ==
    /\ pc' = [pc EXCEPT ![t] = next]
    /\ path' = IF next = "done" THEN [path EXCEPT ![t] = "none"] ELSE path
    /\ arg' = IF next = "done" THEN [arg EXCEPT ![t] = None] ELSE arg
    /\ tstamp' = IF next = "done" THEN [tstamp EXCEPT ![t] = 0] ELSE tstamp

\* the host calls a method on thread t
Call(t, m, p, a, first) ==
    /\ pc[t] = "idle"
    /\ pc' = [pc EXCEPT ![t] = first]
    /\ mode' = [mode EXCEPT ![t] = m]
    /\ path' = [path EXCEPT ![t] = p]
    /\ arg' = [arg EXCEPT ![t] = a]
    /\ UNCHANGED <<ret, exc, raised, tstamp>>
    /\ UNCHANGED <<now, cacheVars, clientVars, envVars, histVars, parseVars>>

\* ------------------------------------------------- AeroCloudStatusCache
\* where update_file_info goes after cache.get returned r
AfterGet(m, r) ==
    IF m = "update" /\ r = None THEN "q_lock" ELSE "done"

\* get: `with self._lock:`
GetAcquire(t) ==
    /\ pc[t] = "get_lock"
    /\ CanAcquire(cache_lock)
    /\ cache_lock' = t
    /\ Step(t, "get_check")
    /\ UNCHANGED <<cache, max_set_ts, last_set, mode, ret, exc, raised>>
    /\ UNCHANGED <<now, clientVars, envVars, histVars, parseVars>>

\* get: `if path in self._cache:`; a miss leaves the with block and returns None
GetCheck(t) ==
    /\ pc[t] = "get_check"
    /\ IF path[t] \in DOMAIN cache
       THEN /\ Step(t, "get_read")
            /\ UNCHANGED <<cache_lock, ret>>
       ELSE /\ cache_lock' = NoThread
            /\ ret' = [ret EXCEPT ![t] = None]
            /\ Step(t, AfterGet(mode[t], None))
    /\ UNCHANGED <<cache, max_set_ts, last_set, mode, exc, raised>>
    /\ UNCHANGED <<now, clientVars, envVars, histVars, parseVars>>

\* get: read the entry, compare its age with the TTL, return it when fresh
GetRead(t) ==
    /\ pc[t] = "get_read"
    /\ IF path[t] \notin DOMAIN cache
       THEN \* self._cache[path] raises KeyError; the with block releases the lock
            /\ cache_lock' = NoThread
            /\ exc' = [exc EXCEPT ![t] = "KeyError"]
            /\ raised' = [raised EXCEPT ![t] = "KeyError"]
            /\ Step(t, "done")
            /\ UNCHANGED ret
       ELSE IF IsFresh(now, cache[path[t]].timestamp)
       THEN /\ cache_lock' = NoThread
            /\ ret' = [ret EXCEPT ![t] = Some(cache[path[t]].status)]
            /\ Step(t, AfterGet(mode[t], Some(cache[path[t]].status)))
            /\ UNCHANGED <<exc, raised>>
       ELSE /\ Step(t, "get_del")
            /\ UNCHANGED <<cache_lock, ret, exc, raised>>
    /\ UNCHANGED <<cache, max_set_ts, last_set, mode>>
    /\ UNCHANGED <<now, clientVars, envVars, histVars, parseVars>>

\* get: `del self._cache[path]`, then `return None`
GetDel(t) ==
    /\ pc[t] = "get_del"
    /\ cache_lock' = NoThread
    /\ IF path[t] \notin DOMAIN cache
       THEN /\ exc' = [exc EXCEPT ![t] = "KeyError"]
            /\ raised' = [raised EXCEPT ![t] = "KeyError"]
            /\ Step(t, "done")
            /\ UNCHANGED <<cache, ret>>
       ELSE /\ cache' = [q \in DOMAIN cache \ {path[t]} |-> cache[q]]
            /\ ret' = [ret EXCEPT ![t] = None]
            /\ Step(t, AfterGet(mode[t], None))
            /\ UNCHANGED <<exc, raised>>
    /\ UNCHANGED <<max_set_ts, last_set, mode>>
    /\ UNCHANGED <<now, clientVars, envVars, histVars, parseVars>>

\* the status update_file_info or the direct caller hands to set
StatusArg(t) == IF mode[t] = "update" THEN ret[t][1] ELSE arg[t][1]

\* set: `with self._lock:`
SetAcquire(t) ==
    /\ pc[t] = "set_lock"
    /\ CanAcquire(cache_lock)
    /\ cache_lock' = t
    /\ Step(t, "set_time")
    /\ UNCHANGED <<cache, max_set_ts, last_set, mode, ret, exc, raised>>
    /\ UNCHANGED <<now, clientVars, envVars, histVars, parseVars>>

\* set: the right-hand side (status, time.time()) is evaluated first
SetTime(t) ==
    /\ pc[t] = "set_time"
    /\ tstamp' = [tstamp EXCEPT ![t] = now]
    /\ pc' = [pc EXCEPT ![t] = "set_store"]
    /\ UNCHANGED <<mode, path, arg, ret, exc, raised>>
    /\ UNCHANGED <<now, cacheVars, clientVars, envVars, histVars, parseVars>>

Max(a, b) == IF a >= b THEN a ELSE b

\* set: `self._cache[path] = ...`, then the with block releases the lock
SetStore(t) ==
    /\ pc[t] = "set_store"
    /\ cache' = [q \in DOMAIN cache \cup {path[t]} |->
                    IF q = path[t]
                    THEN [status |-> StatusArg(t), timestamp |-> tstamp[t]]
                    ELSE cache[q]]
    /\ max_set_ts' = [max_set_ts EXCEPT ![path[t]] = Max(@, tstamp[t])]
    /\ last_set' = [last_set EXCEPT ![path[t]] =
                        Some([status |-> StatusArg(t), timestamp |-> tstamp[t]])]
    /\ cache_lock' = NoThread
    /\ Step(t, "done")
    /\ UNCHANGED <<mode, ret, exc, raised>>
    /\ UNCHANGED <<now, clientVars, envVars, histVars, parseVars>>

CacheStep(t) ==
    \/ GetAcquire(t)
    \/ GetCheck(t)
    \/ GetRead(t)
    \/ GetDel(t)
    \/ SetAcquire(t)
    \/ SetTime(t)
    \/ SetStore(t)

\* ----------------------------------------------- cache runs: direct calls
CachePaths == {"/a", "/b"}
CacheSteps == {TTL - 1, TTL}

CallGet(t) == \E p \in CachePaths : Call(t, "get", p, None, "get_lock")
CallSet(t) == \E p \in CachePaths, s \in Statuses : Call(t, "set", p, Some(s), "set_lock")
TickCache == Tick(CacheSteps, CacheHorizon)

NextCache ==
    \/ TickCache
    \/ \E t \in Threads : CallGet(t)
    \/ \E t \in Threads : CallSet(t)
    \/ \E t \in Threads : CacheStep(t)
    \/ \E t \in Threads : Return(t)

SpecCache == Init /\ [][NextCache]_vars


\* ----------------------------------------------- AeroCloudDaemonClient
AfterQueryRetry(m, r) ==
    IF r = None THEN "q_conn" ELSE IF m = "update" THEN "set_lock" ELSE "done"
\* where update_file_info goes after query_status returned r: `if status:`
AfterQuery(m, r) ==
    IF m = "update" /\ Truthy(r) THEN "set_lock" ELSE "done"

QueryReturnKeepsLock(t, r) ==
    /\ client_lock' = client_lock
    /\ ret' = [ret EXCEPT ![t] = r]
    /\ Step(t, AfterQuery(mode[t], r))
    /\ UNCHANGED exc

\* query_status returns r: the with block releases the lock
QueryReturn(t, r) ==
    /\ client_lock' = NoThread
    /\ ret' = [ret EXCEPT ![t] = r]
    /\ Step(t, AfterQuery(mode[t], r))
    /\ UNCHANGED exc

\* an exception leaves query_status (and update_file_info, which catches nothing)
QueryRaise(t, e) ==
    /\ client_lock' = NoThread
    /\ exc' = [exc EXCEPT ![t] = e]
    /\ Step(t, "done")
    /\ UNCHANGED ret

\* the exceptions a failing connect / sendall / recv raises
TransportErrors == {"timeout", "OSError", "BrokenPipeError"}

\* an exception e is raised inside the try block of query_status.
\* The except block closes the handle, forgets it and returns None; an
\* exception the except clause does not name passes through it.
\* close() is best effort: whether it fails or not, the handle is forgotten.
HandlerWith(t, e, forget) ==
    /\ raised' = [raised EXCEPT ![t] = e]
    /\ last_failure' = IF e \in TransportErrors THEN now ELSE last_failure
    /\ IF Caught(e)
       THEN /\ IF sock # NoSock
               THEN /\ closed_socks' = closed_socks \cup {sock}
                    /\ sock' = IF forget THEN NoSock ELSE sock
                    /\ peer_closed' = IF forget THEN FALSE ELSE peer_closed
                    /\ unread' = IF forget THEN <<>> ELSE unread
                    /\ unread_for' = IF forget THEN "none" ELSE unread_for
                    /\ eof_seen' = IF forget THEN FALSE ELSE eof_seen
               ELSE UNCHANGED <<closed_socks, sock, envVars, eof_seen>>
            /\ QueryReturn(t, None)
       ELSE /\ QueryRaise(t, e)
            /\ UNCHANGED <<closed_socks, sock, envVars, eof_seen>>

HandlerKeepsHandle(t, e) == HandlerWith(t, e, FALSE)
Handler(t, e) == HandlerWith(t, e, TRUE)

\* query_status: `with self._lock:`
QueryAcquire(t) ==
    /\ pc[t] = "q_lock"
    /\ CanAcquire(client_lock)
    /\ client_lock' = t
    /\ Step(t, "q_conn")
    /\ UNCHANGED <<sock, last_connect_attempt, mode, ret, exc, raised>>
    /\ UNCHANGED <<now, cacheVars, envVars, histVars, parseVars>>

\* `self._socket` as a truth value: is there a handle
HasHandleNever(s) == FALSE
HasHandle(s) == s # NoSock

\* how socket.socket() / sock.connect() can end
ConnectOutcomes == {"ok", "socket_error", "refused", "timeout"}

\* query_status: `if not self._socket and not self._connect(): return None`
\* with the whole of _connect.  The environment answers whether the socket
\* path exists and how socket creation and connect end.  _connect is only
\* called without a handle, so its close-the-old-handle block does nothing.
QueryConnect(t) ==
    /\ pc[t] = "q_conn"
    /\ IF HasHandle(sock)
       THEN \* a live handle: _connect is not called
            /\ Step(t, "q_send")
            /\ UNCHANGED <<sock, last_connect_attempt, client_lock, ret, exc>>
            /\ UNCHANGED <<envVars, histVars>>
       ELSE IF Suppressed(now, last_connect_attempt)
       THEN \* `return self._socket is not None`, which is False here
            /\ QueryReturn(t, None)
            /\ UNCHANGED <<sock, last_connect_attempt, envVars, histVars>>
       ELSE \E exists \in BOOLEAN, outcome \in ConnectOutcomes :
            /\ last_connect_attempt' = now
            /\ exists_checks' = exists_checks + 1
            /\ attempt_result' = IF ~exists THEN "missing"
                                 ELSE IF outcome = "ok" THEN "connected"
                                 ELSE "failed"
            /\ UNCHANGED <<closed_socks, last_failure>>
            /\ IF PathMissing(exists) \/ outcome = "socket_error"
               THEN \* no path, or socket.socket() raised OSError
                    /\ QueryReturn(t, None)
                    /\ UNCHANGED <<sock, envVars, socks_created, connect_calls, eof_seen>>
               ELSE IF outcome = "ok"
               THEN /\ socks_created' = socks_created + 1
                    /\ connect_calls' = connect_calls + 1
                    /\ sock' = socks_created + 1
                    /\ peer_closed' = FALSE
                    /\ unread' = <<>>
                    /\ unread_for' = "none"
                    /\ eof_seen' = FALSE
                    /\ Step(t, "q_send")
                    /\ UNCHANGED <<client_lock, ret, exc>>
               ELSE \* connect raised: the new socket is dropped, not stored
                    /\ socks_created' = socks_created + 1
                    /\ connect_calls' = connect_calls + 1
                    /\ QueryReturn(t, None)
                    /\ UNCHANGED <<sock, envVars, eof_seen>>
    /\ UNCHANGED <<mode, raised>>
    /\ UNCHANGED <<now, cacheVars, parseVars>>

\* how sendall can end: a closed peer gives EPIPE on a Unix stream socket
SendOutcomesIgnoreClose == {"ok", "timeout", "OSError"}
SendOutcomes == IF peer_closed THEN {"BrokenPipeError"} ELSE {"ok", "timeout", "OSError"}

\* query_status: build the request, encode it, sendall
QuerySend(t) ==
    /\ pc[t] = "q_send"
    /\ IF path[t] \notin EncodablePaths
       THEN \* request.encode('utf-8') raises UnicodeEncodeError on a lone surrogate
            Handler(t, "UnicodeEncodeError")
       ELSE \E outcome \in SendOutcomes :
            IF outcome = "ok"
            THEN /\ Step(t, "q_recv")
                 /\ UNCHANGED <<sock, client_lock, ret, exc, raised>>
                 /\ UNCHANGED <<envVars, closed_socks, last_failure, eof_seen>>
            ELSE Handler(t, outcome)
    /\ UNCHANGED <<last_connect_attempt, socks_created, exists_checks, connect_calls,
                   attempt_result>>
    /\ UNCHANGED mode
    /\ UNCHANGED <<now, cacheVars, parseVars>>

\* replies the daemon may write for one request
R_OK == <<"STATUS", COLON, "OK", COLON, "synced", NL>>
R_GARBAGE == <<"garbage", NL>>
R_TWO == <<"garbage", NL, "STATUS", COLON, "SYNC", COLON, NL>>
R_BAD == <<BadByte, BadByte>>
R_EMPTY == <<"STATUS", COLON, COLON, NL>>
DaemonReplies == {R_OK, R_GARBAGE, R_TWO, R_BAD}

\* where the part of a reply that has arrived can end: nothing yet, a line
\* end, or the whole reply
SplitPoints(reply) == {0, Len(reply)} \cup {i \in 1..Len(reply) : reply[i] = NL}

\* query_status: recv(1024), decode, scan, return; forgetOnMiss is FALSE in
\* the code: a response without a status line leaves the handle alone.
\* recv returns what has arrived: bytes left from before and the part of
\* the daemon's reply that is there; with nothing to read it returns b''
\* after the daemon closed, and times out otherwise.
QueryRecvFrom(t, replies, forgetOnMiss) ==
    /\ pc[t] = "q_recv"
    /\ \/ \E reply \in (IF peer_closed THEN {<<>>} ELSE replies) :
          \E k \in SplitPoints(reply) :
             LET data == unread \o SubSeq(reply, 1, k)
                 r == ParseResponse(data)
                 forget == r = None /\ forgetOnMiss
             IN /\ data # <<>> \/ peer_closed
                /\ unread' = IF forget THEN <<>> ELSE SubSeq(reply, k + 1, Len(reply))
                /\ unread_for' = IF forget \/ k = Len(reply) THEN "none" ELSE path[t]
                /\ eof_seen' = IF forget THEN FALSE ELSE (eof_seen \/ data = <<>>)
                /\ sock' = IF forget THEN NoSock ELSE sock
                /\ peer_closed' = IF forget THEN FALSE ELSE peer_closed
                /\ QueryReturn(t, r)
                /\ UNCHANGED <<closed_socks, last_failure, raised>>
       \/ \E e \in {"timeout", "OSError"} :
             /\ e = "timeout" => unread = <<>> /\ ~peer_closed
             /\ Handler(t, e)
    /\ UNCHANGED <<last_connect_attempt, socks_created, exists_checks, connect_calls,
                   attempt_result>>
    /\ UNCHANGED mode
    /\ UNCHANGED <<now, cacheVars, parseVars>>

QueryRecvWith(t, forgetOnMiss) == QueryRecvFrom(t, DaemonReplies, forgetOnMiss)
QueryRecvForgetsOnMiss(t) == QueryRecvWith(t, TRUE)
QueryRecv(t) == QueryRecvWith(t, FALSE)

\* the daemon closes its end of the connection
DaemonClose ==
    /\ sock # NoSock
    /\ ~peer_closed
    /\ peer_closed' = TRUE
    /\ UNCHANGED <<now, cacheVars, clientVars, unread, unread_for, histVars, threadVars, parseVars>>

QueryStep(t) ==
    \/ QueryAcquire(t)
    \/ QueryConnect(t)
    \/ QuerySend(t)
    \/ QueryRecv(t)

\* -------------------------------------- client runs: direct query_status
ClientSteps == {RECONNECT_INTERVAL - 1, RECONNECT_INTERVAL}

CallQuery(t) == \E p \in Paths : Call(t, "query", p, None, "q_lock")
TickClient == Tick(ClientSteps, ClientHorizon)

NextClient ==
    \/ TickClient
    \/ DaemonClose
    \/ \E t \in Threads : CallQuery(t)
    \/ \E t \in Threads : QueryStep(t)
    \/ \E t \in Threads : Return(t)

SpecClient == Init /\ [][NextClient]_vars


\* ------------------------------------------------- parser runs: all inputs
ParseAlphabet == {"STATUS", COLON, "OK", NL}
ParseInputs ==
    UNION {[1..n -> ParseAlphabet] : n \in 0..MaxRespLen}
    \cup DaemonReplies
    \cup {<<"STATUS", COLON, "OK", COLON, "synced">>,
          <<"STATUS", BadByte, COLON, "OK", COLON, BadByte>>,
          <<"STA", BadByte, "TUS", COLON, "OK", COLON>>}

InitParse ==
    /\ p_in \in ParseInputs
    /\ p_out = NotApplied
    /\ InitRest

\* the response handling of query_status applied to p_in
ApplyParse ==
    /\ p_out = NotApplied
    /\ p_out' = ParseResponse(p_in)
    /\ UNCHANGED <<now, cacheVars, clientVars, envVars, histVars, threadVars, p_in>>

\* the parsed response is dropped and the next one is awaited
ForgetParse ==
    /\ p_out # NotApplied
    /\ p_out' = NotApplied
    /\ UNCHANGED <<now, cacheVars, clientVars, envVars, histVars, threadVars, p_in>>

NextParse == ApplyParse \/ ForgetParse

SpecParse == InitParse /\ [][NextParse]_vars

\* ------------------------------------ full runs: update_file_info callers
FullSteps == {TTL, RECONNECT_INTERVAL}

\* update_file_info: a "file" URI with a path goes to the cache first
CallUpdate(t) == \E p \in Paths : Call(t, "update", p, None, "get_lock")
TickFull == Tick(FullSteps, FullHorizon)

\* what the daemon answers in these runs, each reply arriving whole: a
\* status, an empty status, no status line
UpdateReplies == {R_OK, R_EMPTY, R_GARBAGE}

\* query_status as update_file_info calls it
UpdateQueryStep(t) ==
    \/ QueryAcquire(t)
    \/ QueryConnect(t)
    \/ QuerySend(t)
    \/ QueryRecvFrom(t, UpdateReplies, FALSE)

Next ==
    \/ TickFull
    \/ \E t \in Threads : CallUpdate(t)
    \/ \E t \in Threads : CacheStep(t)
    \/ \E t \in Threads : UpdateQueryStep(t)
    \/ \E t \in Threads : Return(t)

Spec == Init /\ [][Next]_vars

\* ------------------------- fair runs: update_file_info callers, one file
\* Every thread that can take a step of its call infinitely often takes
\* one: a thread is scheduled, each socket operation returns, and a thread
\* waiting for a lock that is released again and again gets it.
LivePaths == {"/a"}
CallLive(t) == \E p \in LivePaths : Call(t, "update", p, None, "get_lock")
LiveStep(t) == CacheStep(t) \/ UpdateQueryStep(t)

NextLive ==
    \/ TickFull
    \/ \E t \in Threads : CallLive(t)
    \/ \E t \in Threads : CacheStep(t)
    \/ \E t \in Threads : UpdateQueryStep(t)
    \/ \E t \in Threads : Return(t)

SpecLive == Init /\ [][NextLive]_vars /\ \A t \in Threads : SF_vars(LiveStep(t))


\* ================================================================ claims
InQuery(p) == p \in {"q_conn", "q_send", "q_recv"}
InGet(p) == p \in {"get_check", "get_read", "get_del"}
InCache(p) == p \in {"get_check", "get_read", "get_del", "set_time", "set_store"}

\* C1: query_status never lets an exception reach its caller.
\* Violated: a path that cannot be encoded as UTF-8 raises UnicodeEncodeError
\* inside the try block, and the except clause does not name it.
C1_NeverRaises ==
    \A t \in Threads : mode[t] = "query" => exc[t] = NoExc

\* C1, the failure modes the spec lists: a failed connect, send or receive
\* and every response, decodable or not, end in a return, never in a raise.
C1_ListedFailuresReturn ==
    \A t \in Threads :
        /\ exc[t] \in {NoExc, "UnicodeEncodeError"}
        /\ (pc[t] = "done" /\ raised[t] \in TransportErrors)
              => (ret[t] = None /\ exc[t] = NoExc)

\* C2: a connection attempt happens only RECONNECT_INTERVAL or more after
\* the previous one, and records its time; a call that finds no handle
\* inside the interval returns None with no exists check, no socket and no
\* connect.
C2_ReconnectSuppression ==
    [][ /\ exists_checks' # exists_checks =>
              /\ now - last_connect_attempt >= RECONNECT_INTERVAL
              /\ last_connect_attempt' = now
        /\ (connect_calls' # connect_calls \/ socks_created' # socks_created
               \/ last_connect_attempt' # last_connect_attempt)
              => exists_checks' # exists_checks
        /\ \A t \in Threads :
              (/\ pc[t] = "q_conn"
               /\ pc'[t] # "q_conn"
               /\ sock = NoSock
               /\ now - last_connect_attempt < RECONNECT_INTERVAL)
              => /\ ret'[t] = None
                 /\ exc'[t] = NoExc
                 /\ pc'[t] = "done"
                 /\ sock' = NoSock
                 /\ exists_checks' = exists_checks
                 /\ connect_calls' = connect_calls
                 /\ socks_created' = socks_created
      ]_vars

\* two attempts have been made, the second after one that connected
C2_Witness ==
    /\ exists_checks = 2
    /\ connect_calls >= 1
    /\ last_connect_attempt = StartTime + RECONNECT_INTERVAL

\* C3 as stated: once a send or receive has failed, no connection attempt
\* is made until RECONNECT_INTERVAL after that failure.
C3_RearmedByFailure ==
    [][ (exists_checks' # exists_checks /\ last_failure # 0)
            => now - last_failure >= RECONNECT_INTERVAL ]_vars

\* C3 amended: a failed send or receive forgets the handle and leaves
\* last_connect_attempt alone; afterwards a call without a handle makes a
\* connection attempt exactly when RECONNECT_INTERVAL has passed since the
\* last attempt.
C3_SuppressedSinceLastAttempt ==
    [][ /\ closed_socks' # closed_socks =>
              /\ last_connect_attempt' = last_connect_attempt
              /\ sock' = NoSock
        /\ \A t \in Threads :
              (/\ pc[t] = "q_conn"
               /\ pc'[t] # "q_conn"
               /\ sock = NoSock
               /\ last_failure # 0)
              => ((exists_checks' # exists_checks)
                    <=> (now - last_connect_attempt >= RECONNECT_INTERVAL))
      ]_vars

\* a handle failed and the next one was connected at the very time of the
\* failure
C3_Witness ==
    /\ closed_socks # {}
    /\ sock # NoSock
    /\ sock \notin closed_socks
    /\ last_failure = last_connect_attempt

\* C4: when get returns a status, it is the status of the latest set for
\* that path, and that set's timestamp is less than TTL before now.
C4_GetNeverStale ==
    [][ \A t \in Threads :
            (InGet(pc[t]) /\ ~InGet(pc'[t]) /\ ret'[t] # None)
            => /\ exc'[t] = NoExc
               /\ last_set[path[t]] # None
               /\ ret'[t] = Some(last_set[path[t]][1].status)
               /\ now - last_set[path[t]][1].timestamp < TTL
               /\ now >= last_set[path[t]][1].timestamp
      ]_vars

\* a get returned an entry that is one second short of the TTL
C4_Witness ==
    \E t \in Threads, p \in Paths :
        /\ mode[t] = "get"
        /\ pc[t] = "done"
        /\ last_set[p] # None
        /\ ret[t] = Some(last_set[p][1].status)
        /\ now - last_set[p][1].timestamp = TTL - 1
        /\ \A q \in Paths \ {p} : last_set[q] = None

\* C5: at most one thread is between the connect check and the end of the
\* receive, and it is the holder of the client lock.
C5_QuerySerialized ==
    /\ Cardinality({t \in Threads : InQuery(pc[t])}) <= 1
    /\ \A t \in Threads : InQuery(pc[t]) <=> client_lock = t

\* one thread waits for its response while another waits for the lock
C5_Witness ==
    \E t, u \in Threads :
        /\ pc[t] = "q_recv"
        /\ pc[u] = "q_lock"
        /\ client_lock = t

\* C6: a call whose send or receive fails closes the handle, forgets it
\* and returns None.
C6_TransportFailureTeardown ==
    [][ \A t \in Threads :
            (/\ pc[t] \in {"q_send", "q_recv"}
             /\ pc'[t] \notin {"q_send", "q_recv"}
             /\ raised'[t] \in TransportErrors)
            => /\ sock # NoSock
               /\ sock \in closed_socks'
               /\ sock' = NoSock
               /\ ret'[t] = None
               /\ exc'[t] = NoExc
               /\ pc'[t] = "done"
               /\ client_lock' = NoThread
      ]_vars

\* a receive timed out and the client is left without a handle
C6_Witness ==
    \E t \in Threads :
        /\ pc[t] = "done"
        /\ raised[t] = "timeout"
        /\ ret[t] = None
        /\ sock = NoSock
        /\ closed_socks # {}

\* C7: a receive that raises nothing - a response with or without a status
\* line - leaves the handle, last_connect_attempt and the attempt counters
\* as they were; without a status line the call returns None and is over.
C7_ProtocolMissKeepsConnection ==
    [][ \A t \in Threads :
            (pc[t] = "q_recv" /\ pc'[t] # "q_recv" /\ raised'[t] = NoExc)
            => /\ sock # NoSock
               /\ sock' = sock
               /\ last_connect_attempt' = last_connect_attempt
               /\ closed_socks' = closed_socks
               /\ exists_checks' = exists_checks
               /\ connect_calls' = connect_calls
               /\ exc'[t] = NoExc
               /\ ret'[t] = None => pc'[t] = "done"
      ]_vars

\* on the first and only connection, one call got a response without a
\* status line and another call got a status
C7_Witness ==
    /\ connect_calls = 1
    /\ exists_checks = 1
    /\ sock = 1
    /\ \E t, u \in Threads :
          /\ pc[t] = "done" /\ ret[t] # None
          /\ pc[u] = "done" /\ ret[u] = None /\ raised[u] = NoExc

\* C8: when an attempt finds no socket path, that call and every call that
\* ends inside the following RECONNECT_INTERVAL return None, the handle
\* stays absent and no socket is created.
C8_MissingPathWindow ==
    [][ \A t \in Threads :
            (/\ InQuery(pc[t])
             /\ ~InQuery(pc'[t])
             /\ \/ /\ attempt_result = "missing"
                   /\ now - last_connect_attempt < RECONNECT_INTERVAL
                \/ /\ exists_checks' # exists_checks
                   /\ attempt_result' = "missing")
            => /\ ret'[t] = None
               /\ exc'[t] = NoExc
               /\ sock = NoSock
               /\ sock' = NoSock
               /\ socks_created' = socks_created
               /\ connect_calls' = connect_calls
      ]_vars

\* one attempt found no path; two calls have ended since, the clock stands
\* at the last second of the window
C8_Witness ==
    /\ attempt_result = "missing"
    /\ exists_checks = 1
    /\ socks_created = 0
    /\ now = last_connect_attempt + RECONNECT_INTERVAL - 1
    /\ \E t, u \in Threads :
          /\ t # u
          /\ pc[t] = "done" /\ ret[t] = None
          /\ pc[u] = "done" /\ ret[u] = None

\* the lines of the response in p_in
InLines == SplitLines(Decode(p_in))
ColonsOf(line) == {i \in 1..Len(line) : line[i] = COLON}
\* starts with "STATUS:" and has a second colon, so three parts or more
Qualifies(line) ==
    /\ Len(line) >= 2
    /\ line[1] = "STATUS"
    /\ line[2] = COLON
    /\ Cardinality(ColonsOf(line)) >= 2
\* the text between the first and the second colon
SecondField(line) ==
    LET c == CHOOSE i \in ColonsOf(line) \ {2} : \A j \in ColonsOf(line) \ {2} : i <= j
    IN SubSeq(line, 3, c - 1)
Qualifying == {i \in 1..Len(InLines) : Qualifies(InLines[i])}
FirstQualifying == CHOOSE i \in Qualifying : \A j \in Qualifying : i <= j

\* C9: the result is the second field of the first line that starts with
\* "STATUS:" and has three parts, None when there is no such line;
\* "STATUS:OK:synced" gives "OK".
C9_ResponseParsing ==
    p_out # NotApplied =>
        /\ IF Qualifying = {}
           THEN p_out = None
           ELSE p_out = Some(SecondField(InLines[FirstQualifying]))
        /\ p_in = <<"STATUS", COLON, "OK", COLON, "synced">> => p_out = Some(<<"OK">>)
        /\ p_in = R_OK => p_out = Some(<<"OK">>)

\* a response whose first line starts with the marker but has only two
\* parts, so that the result comes from the second line
C9_Witness ==
    /\ p_out # NotApplied
    /\ Qualifying # {}
    /\ FirstQualifying > 1
    /\ StartsWith(InLines[1], STATUS_MARKER)
    /\ p_out = Some(<<"OK">>)

\* C10: no get or set raises, at most one thread is inside the cache, every
\* stored entry is whole, and it is what the set that completed last for
\* its path stored, with a timestamp no set for that path exceeds.
C10_CacheAtomic ==
    /\ \A t \in Threads : exc[t] = NoExc
    /\ Cardinality({t \in Threads : InCache(pc[t])}) <= 1
    /\ \A t \in Threads : InCache(pc[t]) <=> cache_lock = t
    /\ \A p \in DOMAIN cache :
          /\ cache[p].status \in Statuses
          /\ cache[p].timestamp <= now
          /\ last_set[p] = Some(cache[p])
          /\ cache[p].timestamp = max_set_ts[p]

\* a set is about to overwrite an older entry of a path while another
\* thread waits at the lock for the same path
C10_Witness ==
    \E t, u \in Threads :
        /\ t # u
        /\ pc[t] = "set_store"
        /\ pc[u] \in {"set_lock", "get_lock"}
        /\ path[t] = path[u]
        /\ path[t] \in DOMAIN cache
        /\ cache[path[t]].timestamp < tstamp[t]
        /\ cache[path[t]].status # StatusArg(t)

\* C11: a get for a path that returns while the latest set for that path
\* is less than TTL old returns the status of that set and leaves the
\* entry, whole, in the cache.
C11_RoundTrip ==
    [][ \A t \in Threads :
            (/\ InGet(pc[t])
             /\ ~InGet(pc'[t])
             /\ last_set[path[t]] # None
             /\ now - last_set[path[t]][1].timestamp < TTL)
            => /\ exc'[t] = NoExc
               /\ ret'[t] = Some(last_set[path[t]][1].status)
               /\ path[t] \in DOMAIN cache'
               /\ cache'[path[t]] = last_set[path[t]][1]
               /\ cache' = cache
      ]_vars

\* one thread has set SYNC for "/b", the other has read it back one second
\* short of the TTL, and the entry is still there
C11_Witness ==
    \E t, u \in Threads :
        /\ mode[u] = "set" /\ pc[u] = "done"
        /\ mode[t] = "get" /\ pc[t] = "done"
        /\ ret[t] = Some(<<"SYNC">>)
        /\ DOMAIN cache = {"/b"}
        /\ cache["/b"].status = <<"SYNC">>
        /\ last_set["/a"] = None
        /\ now - cache["/b"].timestamp = TTL - 1

\* C12: a get for a path that returns when the latest set for that path is
\* TTL or more old returns None and leaves no entry for the path: an entry
\* that was there is deleted and the map has one entry less.  Entries leave
\* the map in no other way: only the delete step of a get removes one, only
\* its own, and only one that is TTL or more old.
C12_LazyExpiry ==
    [][ /\ \A t \in Threads :
              (/\ InGet(pc[t])
               /\ ~InGet(pc'[t])
               /\ last_set[path[t]] # None
               /\ now - last_set[path[t]][1].timestamp >= TTL)
              => /\ ret'[t] = None
                 /\ exc'[t] = NoExc
                 /\ path[t] \notin DOMAIN cache'
                 /\ path[t] \in DOMAIN cache =>
                       /\ pc[t] = "get_del"
                       /\ Cardinality(DOMAIN cache') = Cardinality(DOMAIN cache) - 1
        /\ (DOMAIN cache \ DOMAIN cache' # {}) =>
              \E t \in Threads :
                 /\ pc[t] = "get_del"
                 /\ ~InGet(pc'[t])
                 /\ DOMAIN cache' = DOMAIN cache \ {path[t]}
                 /\ now - cache[path[t]].timestamp >= TTL
                 /\ \A q \in DOMAIN cache' : cache'[q] = cache[q]
      ]_vars

\* both paths have been set; a get has found the entry of "/a" expired and
\* deleted it, and the entry of "/b" is still stored
C12_Witness ==
    \E t \in Threads :
        /\ mode[t] = "get" /\ pc[t] = "done" /\ ret[t] = None
        /\ last_set["/a"] # None
        /\ last_set["/b"] # None
        /\ DOMAIN cache = {"/b"}
        /\ now - last_set["/a"][1].timestamp = TTL

\* C13: a call that finds a handle goes straight on to send on it, whatever
\* the clock says; and as long as there is a handle no step changes
\* last_connect_attempt, checks the socket path, creates a socket or
\* connects.
C13_ConnectedReuse ==
    [][ /\ \A t \in Threads :
              (pc[t] = "q_conn" /\ pc'[t] # "q_conn" /\ sock # NoSock)
              => /\ pc'[t] = "q_send"
                 /\ sock' = sock
                 /\ client_lock' = t
        /\ sock # NoSock =>
              /\ last_connect_attempt' = last_connect_attempt
              /\ exists_checks' = exists_checks
              /\ socks_created' = socks_created
              /\ connect_calls' = connect_calls
              /\ sock' \in {sock, NoSock}
      ]_vars

\* one call connected and got its status; a later call is sending on the
\* same handle at a time when a connection attempt would be suppressed
C13_Witness ==
    \E t, u \in Threads :
        /\ pc[u] = "done" /\ ret[u] # None
        /\ pc[t] = "q_send"
        /\ sock = 1
        /\ socks_created = 1
        /\ exists_checks = 1
        /\ now - last_connect_attempt = RECONNECT_INTERVAL - 1

\* the order in which one query_status call goes through its steps
QueryOrder ==
    {<<"idle", "q_lock">>, <<"q_lock", "q_conn">>, <<"q_conn", "q_send">>,
     <<"q_conn", "done">>, <<"q_send", "q_recv">>, <<"q_send", "done">>,
     <<"q_recv", "done">>, <<"done", "idle">>}

\* C15: a call passes the connect step, the send and the receive at most
\* once each and in that order (whatever a send or a receive does to the
\* connection moves the call on); every connection attempt is the connect
\* step of one call, which makes one exists check and at most one connect;
\* a connect that fails and a send or receive that raises end the call.
C15_NoRetry ==
    [][ /\ \A t \in Threads :
              /\ pc'[t] # pc[t] => <<pc[t], pc'[t]>> \in QueryOrder
              /\ (/\ pc[t] \in {"q_send", "q_recv"}
                  /\ <<sock, unread, closed_socks>>' # <<sock, unread, closed_socks>>)
                 => pc'[t] # pc[t]
              /\ (pc[t] \in {"q_send", "q_recv"} /\ raised'[t] # NoExc) => pc'[t] = "done"
              /\ (pc[t] = "q_conn" /\ pc'[t] # pc[t] /\ sock' = NoSock) => pc'[t] = "done"
        /\ exists_checks' \in {exists_checks, exists_checks + 1}
        /\ connect_calls' \in {connect_calls, connect_calls + 1}
        /\ socks_created' \in {socks_created, socks_created + 1}
        /\ (exists_checks' # exists_checks \/ connect_calls' # connect_calls
               \/ socks_created' # socks_created)
              => \E t \in Threads : pc[t] = "q_conn" /\ pc'[t] \in {"q_send", "done"}
      ]_vars

\* the only call so far made one attempt, its connect failed, and it is over
C15_Witness ==
    \E t \in Threads :
        /\ pc[t] = "done" /\ ret[t] = None
        /\ attempt_result = "failed"
        /\ exists_checks = 1
        /\ connect_calls = 1
        /\ sock = NoSock
        /\ \A u \in Threads \ {t} : pc[u] = "idle"

\* C16: the handle is one socket the client created and has not closed.
\* A socket is created only when there is no handle, and becomes the handle
\* only when its connect succeeded; a handle goes away only by being
\* closed and forgotten, and is never replaced directly by another.
C16_SingleHandle ==
    [][ /\ sock = NoSock \/ sock \in 1..socks_created
        /\ sock \notin closed_socks
        /\ sock' \notin closed_socks'
        /\ closed_socks \subseteq closed_socks'
        /\ socks_created' # socks_created =>
              /\ sock = NoSock
              /\ socks_created' = socks_created + 1
              /\ attempt_result' \in {"connected", "failed"}
              /\ attempt_result' = "failed" => sock' = NoSock
              /\ attempt_result' = "connected" => sock' = socks_created'
        /\ (sock' # sock /\ sock' # NoSock) =>
              /\ sock = NoSock
              /\ socks_created' # socks_created
              /\ attempt_result' = "connected"
        /\ (sock' # sock /\ sock # NoSock) =>
              /\ sock' = NoSock
              /\ closed_socks' = closed_socks \cup {sock}
      ]_vars

\* the first handle failed and was closed; a second socket has just been
\* connected and stored, and its call is about to send
C16_Witness ==
    \E t \in Threads :
        /\ pc[t] = "q_send"
        /\ closed_socks = {1}
        /\ socks_created = 2
        /\ sock = 2
        /\ attempt_result = "connected"

\* C18: before the first connection attempt the client has no handle, has
\* recorded no attempt and has created no socket; the first call to reach
\* the connect step is not suppressed: it records the time, checks the
\* socket path once, creates no socket when the path is missing, and
\* otherwise tries to connect, keeping the socket when that succeeds.
C18_FirstCallAttempts ==
    [][ /\ exists_checks = 0 =>
              /\ sock = NoSock
              /\ last_connect_attempt = 0
              /\ socks_created = 0
              /\ connect_calls = 0
              /\ \A t \in Threads : pc[t] \in {"idle", "q_lock", "q_conn"}
        /\ \A t \in Threads :
              (pc[t] = "q_conn" /\ pc'[t] # "q_conn" /\ exists_checks = 0)
              => /\ exists_checks' = 1
                 /\ last_connect_attempt' = now
                 /\ attempt_result' \in {"missing", "connected", "failed"}
                 /\ attempt_result' = "missing" =>
                       (socks_created' = 0 /\ sock' = NoSock /\ ret'[t] = None)
                 /\ attempt_result' = "connected" =>
                       (socks_created' = 1 /\ sock' = 1 /\ pc'[t] = "q_send")
                 /\ attempt_result' = "failed" =>
                       (sock' = NoSock /\ ret'[t] = None /\ pc'[t] = "done")
      ]_vars

\* the first call of all found the path, connected at the start time and
\* is about to send; nothing else has happened
C18_Witness ==
    \E t \in Threads :
        /\ pc[t] = "q_send"
        /\ \A u \in Threads \ {t} : pc[u] = "idle" /\ ret[u] = None
        /\ exists_checks = 1
        /\ connect_calls = 1
        /\ sock = 1
        /\ last_connect_attempt = StartTime
        /\ now = StartTime
        /\ closed_socks = {}

\* C19: a status returned by query_status(P) is taken from the reply to
\* the request of that call: the bytes left unread on the handle before the
\* receive, if they answer a request for another path, hold no status line.
\* Violated: after a receive that got only the first part of a reply, the
\* rest stays in the socket buffer and the next call's single recv reads it
\* first, so the next call returns the status of the earlier request.
C19_ResponsePairing ==
    [][ \A t \in Threads :
            (/\ pc[t] = "q_recv"
             /\ pc'[t] # "q_recv"
             /\ ret'[t] # None
             /\ unread_for \notin {"none", path[t]})
            => ParseResponse(unread) = None
      ]_vars

UpdateOrder ==
    {<<"idle", "get_lock">>, <<"get_lock", "get_check">>,
     <<"get_check", "get_read">>, <<"get_check", "q_lock">>,
     <<"get_read", "done">>, <<"get_read", "get_del">>, <<"get_del", "q_lock">>,
     <<"q_lock", "q_conn">>, <<"q_conn", "q_send">>, <<"q_conn", "done">>,
     <<"q_send", "q_recv">>, <<"q_send", "done">>,
     <<"q_recv", "done">>, <<"q_recv", "set_lock">>,
     <<"set_lock", "set_time">>, <<"set_time", "set_store">>,
     <<"set_store", "done">>, <<"done", "idle">>}

\* C14: update_file_info asks the cache first; a hit ends the call with no
\* step of the client; a miss leads to one query_status; set is reached
\* only from a query that returned a non-empty status and stores that
\* status under the path of the call; nothing else writes the cache, and
\* no entry ever holds an empty status.
C14_UpdateControlFlow ==
    [][ /\ \A t \in Threads :
              /\ pc'[t] # pc[t] => <<pc[t], pc'[t]>> \in UpdateOrder
              /\ (pc[t] \notin {"idle", "done"} /\ pc'[t] # "done") => path'[t] = path[t]
              /\ (InGet(pc[t]) /\ ~InGet(pc'[t])) =>
                    /\ exc'[t] = NoExc
                    /\ ret'[t] # None =>
                          /\ pc'[t] = "done"
                          /\ UNCHANGED <<clientVars, envVars, histVars>>
                    /\ ret'[t] = None => pc'[t] = "q_lock"
              /\ (InQuery(pc[t]) /\ ~InQuery(pc'[t])) =>
                    /\ pc'[t] = "set_lock" <=>
                          (exc'[t] = NoExc /\ ret'[t] # None /\ ret'[t][1] # <<>>)
                    /\ cache' = cache
              /\ pc[t] \in {"set_lock", "set_time", "set_store"} =>
                    /\ ret'[t] = ret[t]
                    /\ ret[t] # None
                    /\ ret[t][1] # <<>>
              /\ (pc[t] = "set_store" /\ pc'[t] # "set_store") =>
                    /\ DOMAIN cache' = DOMAIN cache \cup {path[t]}
                    /\ cache'[path[t]].status = ret[t][1]
                    /\ \A q \in DOMAIN cache \ {path[t]} : cache'[q] = cache[q]
        /\ cache' # cache =>
              \E t \in Threads : pc[t] \in {"set_store", "get_del"} /\ pc'[t] # pc[t]
        /\ \A p \in DOMAIN cache : cache[p].status # <<>>
        /\ \A p \in DOMAIN cache' : cache'[p].status # <<>>
      ]_vars

\* one call got a status from the daemon and stored it; another call got an
\* empty status; the cache holds one entry
C14_Witness ==
    \E t, u \in Threads :
        /\ pc[t] = "done" /\ ret[t] = Some(<<>>)
        /\ pc[u] = "done" /\ ret[u] = Some(<<"OK">>)
        /\ Cardinality(DOMAIN cache) = 1
        /\ Cardinality({p \in Paths : last_set[p] # None}) = 1
        /\ sock # NoSock

\* what holds of the locks in every state: a thread holds the client lock
\* exactly while it is between the connect check and the end of
\* query_status, and the cache lock exactly while it is inside get or set,
\* so never both and neither after its call has ended; and whenever a call
\* is under way, some thread can take a step of its call.
LocksInOrder ==
    /\ \A t \in Threads :
          /\ client_lock = t <=> InQuery(pc[t])
          /\ cache_lock = t <=> InCache(pc[t])
          /\ ~(client_lock = t /\ cache_lock = t)
          /\ pc[t] \in {"idle", "done"} => (client_lock # t /\ cache_lock # t)
    /\ client_lock \in Threads \cup {NoThread}
    /\ cache_lock \in Threads \cup {NoThread}
    /\ (\E t \in Threads : pc[t] \notin {"idle", "done"})
          => \E t \in Threads : ENABLED LiveStep(t)

====
